---- MODULE Spec2Model ----
(***************************************************************************)
(* A model of apkmirror-downloader (src/src/main.ts).                      *)
(*                                                                         *)
(* Text is a TLA+ string; a character is a string of length 1.  A parsed   *)
(* page is a record of what the selectors of main.ts can see in it:        *)
(*   widgets    the .listWidget containers in document order, each with    *)
(*              heading  the text of its ":scope > .widgetHeader" child    *)
(*                       (Undefined when it has none),                     *)
(*              rows     the anchors ".appRow .appRowTitle > a" finds,     *)
(*              last     the anchors ":scope > :last-child a" finds;       *)
(*   fileButton the href ".card-with-tabs .tab-content #file               *)
(*              a.downloadButton" finds (Undefined when none);             *)
(*   cardAnchor the href ".card-with-tabs a" finds (Undefined when none).  *)
(* A function of main.ts that may throw returns Return(v) or Throw(msg).   *)
(***************************************************************************)
EXTENDS Naturals, Sequences, FiniteSets, TLC

VARIABLES
    document,   \* the page under resolution (resolver specifications)
    request,    \* the caller's argument: requested version / architecture
    result,     \* what the resolver call returned or threw
    config,     \* config.apps
    launched,   \* how many entries of config.apps the map() has visited
    pc,         \* per app: where its downloadApp / download call is suspended
    urlPath,    \* per app: downloadApp's urlPath variable
    version,    \* per app: downloadApp's version variable
    fetches,    \* per app: the requests issued so far, in order
    produced,   \* per app: the URLs its stages have produced so far, in order
    response,   \* per app: the state of download's dl promise
    mkdir,      \* per app: the state of download's mkdir promise
    outcome,    \* per app: settlement of its downloadApp promise
    streams,    \* per app: the path and state of its write stream
    appsDir,    \* whether the directory "apps" exists
    driver      \* the top-level module: "map", "await", "done"; "crashed"
                \* once an uncaught exception has ended the process

vars == <<document, request, result, config, launched, pc, urlPath, version,
          fetches, produced, response, mkdir, outcome, streams, appsDir,
          driver>>

-----------------------------------------------------------------------------
(* JavaScript values                                                       *)

Undefined == "<undefined>"

Return(v) == [ok |-> TRUE, value |-> v]

Throw(msg) == [ok |-> FALSE, value |-> msg]

\* if (x): a string is truthy unless it is absent or empty.
Truthy(s) == s # Undefined /\ s # ""

UpperLetters == "ABCDEFGHIJKLMNOPQRSTUVWXYZ"

LowerLetters == "abcdefghijklmnopqrstuvwxyz"

CharAt(s, i) == SubSeq(s, i, i)

\* String.prototype.toLowerCase on one character.
LowerChar(c) ==
    LET at == {i \in 1..Len(UpperLetters) : CharAt(UpperLetters, i) = c}
    IN IF at = {} THEN c ELSE CharAt(LowerLetters, CHOOSE i \in at : TRUE)

RECURSIVE toLowerCase(_)
toLowerCase(s) ==
    IF s = "" THEN "" ELSE LowerChar(Head(s)) \o toLowerCase(Tail(s))

\* String.prototype.includes
includes(s, sub) ==
    \E i \in 1..(Len(s) + 1) :
        i + Len(sub) - 1 <= Len(s) /\ SubSeq(s, i, i + Len(sub) - 1) = sub

\* The character class [\d.]
IsDigit(c) == \E i \in 1..10 : CharAt("0123456789", i) = c

VersionChar(c) == IsDigit(c) \/ c = "."

\* text.match(/[\d.]+/)?.[0]: the leftmost match, extended greedily.
MatchVersion(s) ==
    IF \E i \in 1..Len(s) : VersionChar(CharAt(s, i))
    THEN LET from == CHOOSE i \in 1..Len(s) :
                        /\ VersionChar(CharAt(s, i))
                        /\ \A j \in 1..(i - 1) : ~VersionChar(CharAt(s, j))
             to   == CHOOSE k \in from..Len(s) :
                        /\ \A j \in from..k : VersionChar(CharAt(s, j))
                        /\ (k = Len(s) \/ ~VersionChar(CharAt(s, k + 1)))
         IN SubSeq(s, from, to)
    ELSE Undefined

-----------------------------------------------------------------------------
(* Selector utilities                                                      *)

\* Array.prototype.find, by position: given the callback's verdict on each
\* element, the index of the first element it accepts, or 0 when find
\* returns undefined.
FindIndex(verdicts) ==
    IF \E i \in 1..Len(verdicts) : verdicts[i]
    THEN CHOOSE i \in 1..Len(verdicts) :
             verdicts[i] /\ \A j \in 1..(i - 1) : ~verdicts[j]
    ELSE 0

queryAll(list) ==
    IF Len(list) = 0
    THEN Throw("Couldn't find a matching element for selector")
    ELSE Return(list)

HeadingIncludes(widget, text) ==
    widget.heading # Undefined /\ includes(widget.heading, text)

findContainerWithHeading(list, text) ==
    LET found == FindIndex([i \in 1..Len(list) |-> HeadingIncludes(list[i], text)])
    IN IF found = 0
       THEN Throw("Couldn't find container with matching heading")
       ELSE Return(list[found])

\* The shared opening of both version resolvers: the anchors of the
\* "All versions" container, or the failure of one of the three queries.
VersionAnchors(doc) ==
    LET containers == queryAll(doc.widgets)
    IN IF ~containers.ok THEN containers
       ELSE LET versionContainer ==
                    findContainerWithHeading(containers.value, "All versions")
            IN IF ~versionContainer.ok THEN versionContainer
               ELSE queryAll(versionContainer.value.rows)

-----------------------------------------------------------------------------
(* Version resolver                                                        *)

IsPreRelease(x) ==
    \/ includes(toLowerCase(x.text), "alpha")
    \/ includes(toLowerCase(x.text), "beta")

\* Stable with the "alpha" test left out.
StableUnlessBeta(x) == ~includes(toLowerCase(x.text), "beta")

Stable(x) == ~IsPreRelease(x)

VersionLabel(text) ==
    LET m == MatchVersion(text)
    IN IF m = Undefined \/ m = "" THEN "unknown" ELSE m

getLatestStableURL(doc) ==
    LET versions == VersionAnchors(doc)
    IN IF ~versions.ok THEN versions
       ELSE LET latestStable ==
                    FindIndex([i \in 1..Len(versions.value) |->
                                  Stable(versions.value[i])])
            IN IF latestStable = 0
               THEN Throw("Couldn't find anchor element for latest stable APK")
               ELSE Return(<<versions.value[latestStable].href,
                             VersionLabel(versions.value[latestStable].text)>>)

MatchesVersion(x, ver) == includes(toLowerCase(x.text), ver)

getCustomVersionURL(ver, doc) ==
    LET versions == VersionAnchors(doc)
    IN IF ~versions.ok THEN versions
       ELSE LET customVersion ==
                    FindIndex([i \in 1..Len(versions.value) |->
                                  MatchesVersion(versions.value[i], ver)])
            IN IF customVersion = 0
               THEN Throw("Couldn't find anchor element for latest stable APK")
               ELSE Return(versions.value[customVersion].href)

-----------------------------------------------------------------------------
(* Download-link resolver chain                                            *)

\* JavaScript's == on two values that are each a string or undefined.
LooseEquals(a, b) == a = b

\* .filter #2: the anchor's parent has more than one child element.
HasSiblings(x) == x.siblings > 1

\* ArchFilter comparing the cell with the requested architecture.
ArchFilterAgainstRequest(x, arch) ==
    IF Truthy(arch)
    THEN LooseEquals(x.archCell, arch) \/ LooseEquals(x.archCell, "universal")
    ELSE TRUE

\* .filter #3.  Inside the block the const arch declared on line 170 shadows
\* the parameter, so both operands of the first comparison are the cell text;
\* the parameter is read by the if alone.

ArchFilter(x, arch) ==
    IF Truthy(arch)
    THEN LET cell == x.archCell
         IN LooseEquals(cell, cell) \/ LooseEquals(cell, "universal")
    ELSE TRUE

IsBundleBadge(text) == includes(toLowerCase(text), "bundle")

\* The .find callback: queryAll throws on a parent without any .apkm-badge.
NonBundle(x) ==
    LET badges == queryAll(x.badges)
    IN IF ~badges.ok THEN badges
       ELSE Return(~\E i \in 1..Len(badges.value) :
                        IsBundleBadge(badges.value[i]))

getNonBundleURL(doc, arch) ==
    LET containers == queryAll(doc.widgets)
    IN IF ~containers.ok THEN containers
       ELSE
       LET downloadContainer ==
               findContainerWithHeading(containers.value, "Download")
       IN IF ~downloadContainer.ok THEN downloadContainer
          ELSE
          LET downloads == queryAll(downloadContainer.value.last)
          IN IF ~downloads.ok THEN downloads
             ELSE
             LET Kept(x) == HasSiblings(x) /\ ArchFilter(x, arch)
                 candidates == SelectSeq(downloads.value, Kept)
                 called == [i \in 1..Len(candidates) |-> NonBundle(candidates[i])]
                 \* find stops at the first candidate whose callback throws
                 \* or returns true
                 nonBundleDownload ==
                     FindIndex([i \in 1..Len(candidates) |->
                                   ~called[i].ok \/ called[i].value])
             IN IF nonBundleDownload = 0
                THEN Throw("Couldn't find anchor element for normal/non-bundled APK")
                ELSE IF ~called[nonBundleDownload].ok
                THEN called[nonBundleDownload]
                ELSE Return(candidates[nonBundleDownload].href)

getDownloadPageURL(doc) ==
    IF doc.fileButton = Undefined
    THEN Throw("Couldn't find anchor element for APK download page")
    ELSE Return(doc.fileButton)

getDirectDownloadURL(doc) ==
    IF doc.cardAnchor = Undefined
    THEN Throw("Couldn't find anchor element for direct APK download")
    ELSE Return(doc.cardAnchor)

-----------------------------------------------------------------------------
(* Inputs of the resolver specifications                                   *)

MaxAnchors == 3

MaxCandidates == 2

\* The type of App.arch.
Architectures == {"universal", "armeabi-v7a", "arm64-v8a", "x86", "x86_64"}

AnchorTexts ==
    {"App 2.0.0 beta", "App 1.9.5", "ALPHA 3.1", "App. 1.2-RC", "Nightly"}

RequestedVersions == {Undefined, "", "1.", "beta", "rc", "RC"}

\* Absent, and two of Architectures.
RequestedArchs == {Undefined, "arm64-v8a", "x86"}

Headings == {"All versions ", "Download"}

\* The href of the anchor at position i of its list.
HrefAt(i) == "/v" \o CharAt("123456789", i)

\* The lists of at most max elements of choices.
ListsOf(choices, max) == UNION { [1..n -> choices] : n \in 0..max }

VersionAnchor(i, text) == [text |-> text, href |-> HrefAt(i)]

CandidateShapes ==
    [siblings : {1, 2},
     archCell : {Undefined, "x86", "universal"},
     badges   : {<<>>, <<"APK">>, <<"BUNDLE">>, <<"APK", "Bundle">>}]

Candidate(i, shape) ==
    [href |-> HrefAt(i), siblings |-> shape.siblings,
     archCell |-> shape.archCell, badges |-> shape.badges]

MoreUploads == [text |-> "See more uploads...", href |-> "/uploads"]

ListingDocuments ==
    { [widgets |-> << [heading |-> h, rows |-> r, last |-> l] >>,
       fileButton |-> Undefined, cardAnchor |-> Undefined] :
      h \in Headings,
      r \in { [i \in 1..Len(texts) |-> VersionAnchor(i, texts[i])] :
               texts \in ListsOf(AnchorTexts, MaxAnchors) },
      l \in {<<>>, <<MoreUploads>>} }

VersionPageDocuments ==
    { [widgets |-> << [heading |-> h, rows |-> <<>>, last |-> l] >>,
       fileButton |-> Undefined, cardAnchor |-> Undefined] :
      h \in Headings,
      l \in { [i \in 1..Len(shapes) |-> Candidate(i, shapes[i])] :
               shapes \in ListsOf(CandidateShapes, MaxCandidates) } }

NoDocument == [widgets |-> <<>>, fileButton |-> Undefined, cardAnchor |-> Undefined]

\* The driver's variables, unused by the resolver specifications.
DriverIdle ==
    /\ config = <<>> /\ launched = 0 /\ pc = <<>> /\ urlPath = <<>>
    /\ version = <<>> /\ fetches = <<>> /\ produced = <<>> /\ response = <<>>
    /\ mkdir = <<>> /\ outcome = <<>> /\ streams = <<>> /\ appsDir = FALSE
    /\ driver = "done"

driverVars == <<config, launched, pc, urlPath, version, fetches, produced,
                response, mkdir, outcome, streams, appsDir, driver>>

-----------------------------------------------------------------------------
(* SpecVersion: the version resolver called as downloadApp calls it        *)

InitVersion ==
    /\ document \in ListingDocuments
    /\ request \in RequestedVersions
    /\ result = <<>>
    /\ DriverIdle

\* downloadApp, else branch: no version requested.
ResolveLatest ==
    /\ result = <<>>
    /\ ~Truthy(request)
    /\ result' = << [call |-> "getLatestStableURL",
                     ret |-> getLatestStableURL(document)] >>
    /\ UNCHANGED <<document, request, driverVars>>

\* downloadApp, then branch: a version was requested.
ResolveCustom ==
    /\ result = <<>>
    /\ Truthy(request)
    /\ result' = << [call |-> "getCustomVersionURL",
                     ret |-> getCustomVersionURL(request, document)] >>
    /\ UNCHANGED <<document, request, driverVars>>

NextVersion == ResolveLatest \/ ResolveCustom

SpecVersion == InitVersion /\ [][NextVersion]_vars

-----------------------------------------------------------------------------
(* SpecNonBundle: the first stage of the download-link chain               *)

InitNonBundle ==
    /\ document \in VersionPageDocuments
    /\ request \in RequestedArchs
    /\ result = <<>>
    /\ DriverIdle

ResolveNonBundle ==
    /\ result = <<>>
    /\ result' = << [call |-> "getNonBundleURL",
                     ret |-> getNonBundleURL(document, request)] >>
    /\ UNCHANGED <<document, request, driverVars>>

NextNonBundle == ResolveNonBundle

SpecNonBundle == InitNonBundle /\ [][NextNonBundle]_vars

-----------------------------------------------------------------------------
(* The mirror and the configuration of the driver specification            *)

MaxApps == 2

baseURL == "https://apkmirror.com"

\* new URL(urlPath, baseURL).href
ResolveURL(path) ==
    IF includes(path, "://") THEN path
    ELSE IF path # "" /\ Head(path) = "/" THEN baseURL \o path
    ELSE baseURL \o "/" \o path

APKContentType == "application/vnd.android.package-archive"

AppEntries ==
    { [packageName |-> "", urlPath |-> "/apk/app", arch |-> "x86",
       version |-> Undefined],
      [packageName |-> "app", urlPath |-> "/apk/app", arch |-> "arm64-v8a",
       version |-> Undefined],
      [packageName |-> "app", urlPath |-> "/apk/app", arch |-> "arm64-v8a",
       version |-> "1.9.5"],
      [packageName |-> "tool", urlPath |-> "apk/tool", arch |-> "x86",
       version |-> Undefined] }

Configs == UNION { [1..n -> AppEntries] : n \in 1..MaxApps }

ListingPage ==
    [widgets |->
        << [heading |-> "All versions ",
            rows |-> << [text |-> "App 2.0.0 beta", href |-> "/release-2.0.0-beta"],
                        [text |-> "App 1.9.5", href |-> "/release-1.9.5"] >>,
            last |-> <<MoreUploads>>] >>,
     fileButton |-> Undefined, cardAnchor |-> Undefined]

VersionPage ==
    [widgets |->
        << [heading |-> "Download",
            rows |-> <<>>,
            last |-> << [href |-> "/variant-bundle", siblings |-> 2,
                         archCell |-> "arm64-v8a", badges |-> <<"BUNDLE">>],
                        [href |-> "/variant-apk", siblings |-> 2,
                         archCell |-> "x86", badges |-> <<"APK">>] >>] >>,
     fileButton |-> Undefined, cardAnchor |-> Undefined]

VariantPage ==
    [widgets |-> <<>>, fileButton |-> "/download-page", cardAnchor |-> "/tab"]

DownloadPage ==
    [widgets |-> <<>>, fileButton |-> Undefined, cardAnchor |-> "/file.apk"]

\* The page the mirror holds at a URL; any other URL gets a page without any
\* of the elements the selectors look for.
Mirror(url) ==
    CASE url \in {baseURL \o "/apk/app", baseURL \o "/apk/tool"} -> ListingPage
      [] url = baseURL \o "/release-1.9.5" -> VersionPage
      [] url = baseURL \o "/variant-apk" -> VariantPage
      [] url = baseURL \o "/download-page" -> DownloadPage
      [] OTHER -> NoDocument

\* What getDocumentFromURL may settle with: the mirror's page, an
\* interstitial page in its place, or the rejection of fetch.
DocumentAnswers(url) ==
    {Return(Mirror(url)), Return(NoDocument), Throw("fetch failed")}

\* What the binary GET may settle with.
BinaryAnswers ==
    { [settled |-> "fulfilled", contentType |-> c, body |-> TRUE] :
        c \in {APKContentType, "text/html", Undefined,
               APKContentType \o "; charset=binary"} }
    \cup {[settled |-> "fulfilled", contentType |-> APKContentType, body |-> FALSE],
          [settled |-> "rejected", contentType |-> Undefined, body |-> FALSE]}

PendingResponse == [settled |-> "pending", contentType |-> Undefined, body |-> FALSE]

NoStream == [path |-> Undefined, state |-> "none"]

-----------------------------------------------------------------------------
(* Spec: the driver and the concurrently running app pipelines             *)

Apps == 1..Len(config)

Init ==
    /\ document = NoDocument /\ request = Undefined /\ result = <<>>
    /\ config \in Configs
    /\ launched = 0
    /\ pc = [i \in Apps |-> "idle"]
    /\ urlPath = [i \in Apps |-> config[i].urlPath]
    /\ version = [i \in Apps |-> config[i].version]
    /\ fetches = [i \in Apps |-> <<>>]
    /\ produced = [i \in Apps |-> <<>>]
    /\ response = [i \in Apps |-> PendingResponse]
    /\ mkdir = [i \in Apps |-> "none"]
    /\ outcome = [i \in Apps |-> "pending"]
    /\ streams = [i \in Apps |-> NoStream]
    /\ appsDir = FALSE
    /\ driver = "map"

\* downloadFunctions with its first two stages exchanged.
downloadFunctionsExchanged ==
    <<"getDownloadPageURL", "getNonBundleURL", "getDirectDownloadURL">>

\* The order in which the loop of downloadApp applies the chain's stages.
downloadFunctions ==
    <<"getNonBundleURL", "getDownloadPageURL", "getDirectDownloadURL">>

\* dlFunc(document, arch)
ApplyStage(dlFunc, doc, arch) ==
    CASE dlFunc = "getNonBundleURL" -> getNonBundleURL(doc, arch)
      [] dlFunc = "getDownloadPageURL" -> getDownloadPageURL(doc)
      [] dlFunc = "getDirectDownloadURL" -> getDirectDownloadURL(doc)

Fetch(stage, path) == [stage |-> stage, url |-> ResolveURL(path)]

\* The process is running event-loop callbacks: the synchronous map() of the
\* top-level module has returned and no uncaught exception has ended it.
Running == driver \in {"await", "done"}

\* config.apps.map(...) visits the next entry: downloadApp runs up to its
\* first await.  After the last entry, Promise.allSettled is awaited.
Launch ==
    /\ driver = "map"
    /\ launched < Len(config)
    /\ LET i == launched + 1
           app == config[i]
       IN /\ launched' = i
          /\ IF ~Truthy(app.packageName) \/ ~Truthy(app.urlPath)
             THEN /\ pc' = [pc EXCEPT ![i] = "settled"]
                  /\ outcome' = [outcome EXCEPT ![i] = "rejected"]
                  /\ UNCHANGED fetches
             ELSE /\ pc' = [pc EXCEPT ![i] = "listing"]
                  /\ fetches' = [fetches EXCEPT ![i] =
                                    <<Fetch("listing", app.urlPath)>>]
                  /\ UNCHANGED outcome
          /\ driver' = IF i = Len(config) THEN "await" ELSE "map"
    /\ UNCHANGED <<document, request, result, config, urlPath, version,
                   produced, response, mkdir, streams, appsDir>>

\* The path of the output file.
OutputPath(name, arch, ver) ==
    "apps/" \o name \o "_" \o arch \o "_" \o ver \o ".apk"

\* What the version resolver chosen by downloadApp gives: <<urlPath, version>>.
ResolveVersion(doc, ver) ==
    IF Truthy(ver)
    THEN LET r == getCustomVersionURL(ver, doc)
         IN IF r.ok THEN Return(<<r.value, ver>>) ELSE r
    ELSE getLatestStableURL(doc)

\* downloadApp resumes after "await getDocumentFromURL(url)" on the listing
\* page: the version is resolved and the version page is requested.
ListingSettles(i) ==
    /\ Running
    /\ pc[i] = "listing"
    /\ \E answer \in DocumentAnswers(fetches[i][Len(fetches[i])].url) :
        LET r == IF answer.ok THEN ResolveVersion(answer.value, version[i])
                 ELSE answer
        IN IF r.ok
           THEN /\ urlPath' = [urlPath EXCEPT ![i] = r.value[1]]
                /\ version' = [version EXCEPT ![i] = r.value[2]]
                /\ produced' = [produced EXCEPT ![i] = Append(@, r.value[1])]
                /\ fetches' = [fetches EXCEPT ![i] =
                                  Append(@, Fetch(downloadFunctions[1], r.value[1]))]
                /\ pc' = [pc EXCEPT ![i] = "chain"]
                /\ UNCHANGED outcome
           ELSE /\ pc' = [pc EXCEPT ![i] = "settled"]
                /\ outcome' = [outcome EXCEPT ![i] = "rejected"]
                /\ UNCHANGED <<urlPath, version, produced, fetches>>
    /\ UNCHANGED <<document, request, result, config, launched, response,
                   mkdir, streams, appsDir, driver>>

\* downloadApp resumes inside the loop over downloadFunctions: the stage is
\* applied to the page; the next page is requested, or after the last stage
\* download() runs up to "await mkdir".
ChainSettles(i) ==
    /\ Running
    /\ pc[i] = "chain"
    /\ \E answer \in DocumentAnswers(fetches[i][Len(fetches[i])].url) :
        LET k == Len(produced[i])
            r == IF answer.ok
                 THEN ApplyStage(downloadFunctions[k], answer.value, config[i].arch)
                 ELSE answer
        IN IF r.ok
           THEN /\ urlPath' = [urlPath EXCEPT ![i] = r.value]
                /\ produced' = [produced EXCEPT ![i] = Append(@, r.value)]
                /\ IF k < Len(downloadFunctions)
                   THEN /\ fetches' = [fetches EXCEPT ![i] =
                               Append(@, Fetch(downloadFunctions[k + 1], r.value))]
                        /\ UNCHANGED <<pc, mkdir>>
                   ELSE /\ fetches' = [fetches EXCEPT ![i] =
                               Append(@, Fetch("download", r.value))]
                        /\ mkdir' = [mkdir EXCEPT ![i] = "pending"]
                        /\ pc' = [pc EXCEPT ![i] = "mkdir"]
                /\ UNCHANGED outcome
           ELSE /\ pc' = [pc EXCEPT ![i] = "settled"]
                /\ outcome' = [outcome EXCEPT ![i] = "rejected"]
                /\ UNCHANGED <<urlPath, produced, fetches, mkdir>>
    /\ UNCHANGED <<document, request, result, config, launched, version,
                   response, streams, appsDir, driver>>

\* AwaitMkdir with the rejection of mkdir swallowed.
AwaitMkdirIgnoringFailure(settled) == "dl"

\* download resumes after "await mkdir": a rejection of mkdir rejects
\* download, and with it downloadApp.
AwaitMkdir(settled) == IF settled = "fulfilled" THEN "dl" ELSE "settled"

\* mkdir("apps", {recursive: true}) settles.  It succeeds when the directory
\* exists already.
MkdirSettles(i) ==
    /\ Running
    /\ pc[i] = "mkdir"
    /\ \E settled \in {"fulfilled"} \cup (IF appsDir THEN {} ELSE {"rejected"}) :
        /\ mkdir' = [mkdir EXCEPT ![i] = settled]
        /\ appsDir' = (appsDir \/ settled = "fulfilled")
        /\ pc' = [pc EXCEPT ![i] = AwaitMkdir(settled)]
        /\ outcome' = [outcome EXCEPT ![i] =
                          IF AwaitMkdir(settled) = "settled" THEN "rejected" ELSE @]
    /\ UNCHANGED <<document, request, result, config, launched, urlPath,
                   version, fetches, produced, response, streams, driver>>

\* The promise dl of the binary GET settles while download is suspended at
\* "await mkdir" or "await dl".
ResponseSettles(i) ==
    /\ Running
    /\ pc[i] \in {"mkdir", "dl"}
    /\ response[i].settled = "pending"
    /\ \E answer \in BinaryAnswers : response' = [response EXCEPT ![i] = answer]
    /\ UNCHANGED <<document, request, result, config, launched, pc, urlPath,
                   version, fetches, produced, mkdir, outcome, streams, appsDir,
                   driver>>

\* The promise dl settles after mkdir has rejected: download has returned
\* without awaiting it.  A rejection of dl is then an unhandled rejection,
\* which ends the process or is only reported, depending on the runtime's
\* unhandled-rejections mode.
OrphanResponseSettles(i) ==
    /\ Running
    /\ pc[i] = "settled"
    /\ mkdir[i] = "rejected"
    /\ response[i].settled = "pending"
    /\ \E answer \in BinaryAnswers :
        /\ response' = [response EXCEPT ![i] = answer]
        /\ \/ UNCHANGED driver
           \/ answer.settled = "rejected" /\ driver' = "crashed"
    /\ UNCHANGED <<document, request, result, config, launched, pc, urlPath,
                   version, fetches, produced, mkdir, outcome, streams, appsDir>>

\* IsAPK by containment instead of equality.
IsAPKByContainment(contentType) ==
    contentType # Undefined /\ includes(contentType, APKContentType)

\* const isAPK = contentType == "application/vnd.android.package-archive"
IsAPK(contentType) == LooseEquals(contentType, APKContentType)

\* download resumes after "await dl": the response is validated and, when it
\* is valid, the write stream is created and the body piped into it.
ResumeDownload(i) ==
    /\ Running
    /\ pc[i] = "dl"
    /\ response[i].settled # "pending"
    /\ pc' = [pc EXCEPT ![i] = "settled"]
    /\ IF /\ response[i].settled = "fulfilled"
          /\ response[i].body
          /\ IsAPK(response[i].contentType)
       THEN /\ streams' = [streams EXCEPT ![i] =
                   [path |-> OutputPath(config[i].packageName, config[i].arch,
                                        version[i]),
                    state |-> "open"]]
            /\ outcome' = [outcome EXCEPT ![i] = "fulfilled"]
       ELSE /\ outcome' = [outcome EXCEPT ![i] = "rejected"]
            /\ UNCHANGED streams
    /\ UNCHANGED <<document, request, result, config, launched, urlPath,
                   version, fetches, produced, response, mkdir, appsDir, driver>>

\* The body has been written out and the stream closed.
StreamFinishes(i) ==
    /\ Running
    /\ streams[i].state = "open"
    /\ streams' = [streams EXCEPT ![i].state = "finished"]
    /\ UNCHANGED <<document, request, result, config, launched, pc, urlPath,
                   version, fetches, produced, response, mkdir, outcome,
                   appsDir, driver>>

\* Opening or writing the file fails.  fileStream has no 'error' listener, so
\* the 'error' event is thrown as an uncaught exception, which ends the
\* process with every pipeline and stream in it.
StreamFails(i) ==
    /\ Running
    /\ streams[i].state = "open"
    /\ streams' = [streams EXCEPT ![i].state = "failed"]
    /\ driver' = "crashed"
    /\ UNCHANGED <<document, request, result, config, launched, pc, urlPath,
                   version, fetches, produced, response, mkdir, outcome,
                   appsDir>>

\* await Promise.allSettled(downloads) resumes once no promise is pending.
AllSettled ==
    /\ driver = "await"
    /\ \A i \in Apps : outcome[i] # "pending"
    /\ driver' = "done"
    /\ UNCHANGED <<document, request, result, config, launched, pc, urlPath,
                   version, fetches, produced, response, mkdir, outcome,
                   streams, appsDir>>

Next ==
    \/ Launch
    \/ AllSettled
    \/ \E i \in Apps : ListingSettles(i)
    \/ \E i \in Apps : ChainSettles(i)
    \/ \E i \in Apps : MkdirSettles(i)
    \/ \E i \in Apps : ResponseSettles(i)
    \/ \E i \in Apps : OrphanResponseSettles(i)
    \/ \E i \in Apps : ResumeDownload(i)
    \/ \E i \in Apps : StreamFinishes(i)
    \/ \E i \in Apps : StreamFails(i)

Spec == Init /\ [][Next]_vars

-----------------------------------------------------------------------------
(* Properties of the resolvers                                             *)

\* text contains word when letter case is ignored on both sides.
ContainsIgnoringCase(text, word) ==
    \E i \in 1..(Len(text) + 1) :
        /\ i + Len(word) - 1 <= Len(text)
        /\ \A k \in 1..Len(word) :
               LowerChar(CharAt(text, i + k - 1)) = LowerChar(CharAt(word, k))

Called(name) == result # <<>> /\ result[1].call = name

\* The anchors of the page's "All versions" container (<<>> when the page
\* has no such container).
ListedVersions ==
    IF VersionAnchors(document).ok THEN VersionAnchors(document).value ELSE <<>>

PreReleaseText(text) ==
    ContainsIgnoringCase(text, "alpha") \/ ContainsIgnoringCase(text, "beta")

StablePositions ==
    {i \in 1..Len(ListedVersions) : ~PreReleaseText(ListedVersions[i].text)}

Least(S) == CHOOSE i \in S : \A j \in S : i <= j

\* C1: getLatestStableURL returns the href of the first anchor in document
\* order whose text contains neither "alpha" nor "beta" (ignoring case), and
\* fails when every anchor is such a pre-release, with or without a
\* "more uploads" link.
C1_LatestStableIsFirstStableAnchor ==
    Called("getLatestStableURL") =>
        IF StablePositions # {}
        THEN /\ result[1].ret.ok
             /\ result[1].ret.value[1] = ListedVersions[Least(StablePositions)].href
        ELSE ~result[1].ret.ok

\* C1 witness: a pre-release anchor comes first, two stable ones follow, and
\* the call returned the href of the second anchor.
C1_Witness ==
    /\ Called("getLatestStableURL")
    /\ Len(ListedVersions) = 3
    /\ StablePositions = {2, 3}
    /\ result[1].ret.ok
    /\ result[1].ret.value[1] = "/v2"

MatchingPositions ==
    {i \in 1..Len(ListedVersions) :
        ContainsIgnoringCase(ListedVersions[i].text, request)}

\* C3: getCustomVersionURL returns the href of the first anchor whose text
\* contains the requested version when both are compared ignoring letter
\* case, and fails only when no anchor matches in that sense.
C3_CustomVersionMatchesIgnoringCase ==
    Called("getCustomVersionURL") /\ ListedVersions # <<>> =>
        IF MatchingPositions # {}
        THEN /\ result[1].ret.ok
             /\ result[1].ret.value = ListedVersions[Least(MatchingPositions)].href
        ELSE ~result[1].ret.ok

\* The maximal runs of digits and dots of text that hold at least one digit.
NumericRuns(text) ==
    { SubSeq(text, a, b) : <<a, b>> \in
        { ab \in (1..Len(text)) \X (1..Len(text)) :
            /\ ab[1] <= ab[2]
            /\ \A j \in ab[1]..ab[2] : VersionChar(CharAt(text, j))
            /\ \E j \in ab[1]..ab[2] : IsDigit(CharAt(text, j))
            /\ (ab[1] = 1 \/ ~VersionChar(CharAt(text, ab[1] - 1)))
            /\ (ab[2] = Len(text) \/ ~VersionChar(CharAt(text, ab[2] + 1))) } }

\* C4: in latest-stable mode the returned label is the dotted numeric
\* substring of the chosen anchor's text when it has one, and "unknown" when
\* it has none.
C4_LabelIsTheNumericSubstring ==
    Called("getLatestStableURL") /\ result[1].ret.ok =>
        LET text == ListedVersions[Least(StablePositions)].text
            label == result[1].ret.value[2]
        IN IF NumericRuns(text) # {}
           THEN label \in NumericRuns(text)
           ELSE label = "unknown"

\* The anchors of the page's "Download" container.
ListedDownloads ==
    LET c == findContainerWithHeading(document.widgets, "Download")
    IN IF c.ok THEN c.value.last ELSE <<>>

NonBundlePositions ==
    {i \in 1..Len(ListedDownloads) :
        /\ ListedDownloads[i].siblings > 1
        /\ \A b \in 1..Len(ListedDownloads[i].badges) :
               ~ContainsIgnoringCase(ListedDownloads[i].badges[b], "bundle")}

\* C2: getNonBundleURL returns the href of the first candidate whose parent
\* has more than one child and none of whose badges mentions "bundle",
\* a candidate without any badge included.
C2_FirstNonBundleCandidate ==
    Called("getNonBundleURL") /\ NonBundlePositions # {} =>
        /\ result[1].ret.ok
        /\ result[1].ret.value = ListedDownloads[Least(NonBundlePositions)].href

\* C9: the architecture filter keeps every candidate, so getNonBundleURL
\* gives the same href or the same failure whichever architecture is
\* requested ("arm64-v8a", "x86", none or the empty string).
C9_ArchitectureIsIgnored ==
    Called("getNonBundleURL") =>
        /\ \A i \in 1..Len(ListedDownloads) :
               ArchFilter(ListedDownloads[i], request)
        /\ \A other \in RequestedArchs \cup {""} :
               getNonBundleURL(document, other) = result[1].ret

\* C9 witness: "arm64-v8a" was requested and the call returned a candidate
\* whose architecture cell reads "x86", passing over one without a cell.
C9_Witness ==
    /\ Called("getNonBundleURL")
    /\ request = "arm64-v8a"
    /\ Len(ListedDownloads) = 2
    /\ ListedDownloads[1].archCell = Undefined
    /\ ListedDownloads[1].badges = <<"BUNDLE">>
    /\ ListedDownloads[2].archCell = "x86"
    /\ result[1].ret.ok
    /\ result[1].ret.value = "/v2"

-----------------------------------------------------------------------------
(* Properties of the driver and the pipelines                              *)

\* C5: a response whose Content-Type is not exactly the package-archive type,
\* or which has no body, makes download fail without a write stream; a write
\* stream exists only for a response with exactly that type and a body.
C5_NoFileUnlessExactContentType ==
    \A i \in Apps :
        /\ (/\ response[i].settled = "fulfilled"
            /\ (response[i].contentType # APKContentType \/ ~response[i].body))
           => /\ streams[i].state = "none"
              /\ (pc[i] = "settled" => outcome[i] = "rejected")
        /\ streams[i].state # "none"
           => /\ response[i].settled = "fulfilled"
              /\ response[i].contentType = APKContentType
              /\ response[i].body

\* C5 witness: the directory was created, the response arrived as text/html,
\* and download has failed without opening a stream.
C5_Witness ==
    \E i \in Apps :
        /\ response[i].settled = "fulfilled"
        /\ response[i].contentType = "text/html"
        /\ mkdir[i] = "fulfilled"
        /\ pc[i] = "settled"
        /\ outcome[i] = "rejected"
        /\ streams[i].state = "none"

\* C6: every pipeline is launched, the driver goes on only when all have
\* settled, and no pipeline is cut short by the failure of another: the
\* process never ends while an app is unsettled or its file still open.
C6_FailureIsolation ==
    /\ driver # "map" => \A i \in Apps : pc[i] # "idle"
    /\ driver = "done" => \A i \in Apps : outcome[i] # "pending"
    /\ driver = "crashed" =>
           \A i \in Apps : outcome[i] # "pending" /\ streams[i].state # "open"

StageOrder ==
    <<"listing", "getNonBundleURL", "getDownloadPageURL",
      "getDirectDownloadURL", "download">>

\* C7: a pipeline fetches listing page, version page, variant page, download
\* page and binary in this order, each from the URL the stage before it
\* produced; it has issued 5 fetches when it succeeds, and after a failure at
\* stage k exactly the k fetches up to that stage (none for the argument
\* check).
C7_PipelineIsSequential ==
    \A i \in Apps :
        /\ Len(fetches[i]) <= Len(StageOrder)
        /\ \A k \in 1..Len(fetches[i]) :
               /\ fetches[i][k].stage = StageOrder[k]
               /\ fetches[i][k].url =
                      ResolveURL(IF k = 1 THEN config[i].urlPath
                                 ELSE produced[i][k - 1])
        /\ Len(fetches[i]) <= Len(produced[i]) + 1
        /\ outcome[i] = "fulfilled" => Len(fetches[i]) = 5
        /\ outcome[i] = "rejected" =>
               Len(fetches[i]) \in {0, Len(produced[i]) + 1}

\* C7 witness: one pipeline has succeeded after 5 fetches while another has
\* failed at its second stage after 2.
C7_Witness ==
    \E i, j \in Apps :
        /\ outcome[i] = "fulfilled" /\ Len(fetches[i]) = 5
        /\ outcome[j] = "rejected" /\ Len(fetches[j]) = 2

\* C8: no two pipelines ever open a write stream on the same path.
C8_DisjointOutputPaths ==
    \A i, j \in Apps :
        (i # j /\ streams[i].state # "none" /\ streams[j].state # "none")
            => streams[i].path # streams[j].path

\* C10: the binary GET is issued before mkdir is awaited; a write stream
\* exists only once mkdir has succeeded and the response has been received
\* and validated; a failed mkdir leaves the pipeline rejected without one.
C10_WriteWaitsForDirectoryAndHeaders ==
    \A i \in Apps :
        /\ mkdir[i] # "none" =>
               Len(fetches[i]) = 5 /\ fetches[i][5].stage = "download"
        /\ streams[i].state # "none" =>
               /\ appsDir
               /\ mkdir[i] = "fulfilled"
               /\ response[i].settled = "fulfilled"
               /\ response[i].contentType = APKContentType
        /\ mkdir[i] = "rejected" =>
               streams[i].state = "none" /\ outcome[i] = "rejected"

\* C10 witness: mkdir has succeeded, the directory exists, and the stream
\* of that pipeline is open.
C10_Witness ==
    \E i \in Apps :
        /\ streams[i].state = "open"
        /\ mkdir[i] = "fulfilled"
        /\ appsDir

====
